---- MODULE Spec2Model ----
(***************************************************************************)
(* Model of the conversational memory subsystem:                           *)
(*   my_ai_assistant/memory_system.py  (ConversationMemory)                *)
(*   my_ai_assistant/main.py           (AIAssistant)                       *)
(*   my_ai_assistant/config.py         (MemoryConfig)                      *)
(*                                                                         *)
(* Python str values are sequences of one-character strings, so that       *)
(* formatting, lower-casing and substring search are computed.  Clock      *)
(* readings (datetime.now()) are naturals; distances are in tenths.        *)
(***************************************************************************)
EXTENDS Integers, Sequences, FiniteSets, TLC

VARIABLES
  max_conversation_history,  \* config.memory.max_conversation_history
  memory_persistence,        \* config.memory.memory_persistence
  current_conversation,      \* ConversationMemory.current_conversation
  conversations,             \* the "conversations" collection, in insertion order
  user_facts,                \* the "user_facts" collection, in insertion order
  files,                     \* the session files in config.conversations_dir
  now,                       \* the last reading of the clock
  pc,                        \* position of the generate_response generator
  user_message,              \* generate_response: its argument
  response_text,             \* generate_response: the text assembled so far
  chunks,                    \* generate_response: chunks received so far
  calls,                     \* history: <<role, content>> of every add_message call
  last                       \* history: the last completed call and the state before it

vars == << max_conversation_history, memory_persistence, current_conversation,
           conversations, user_facts, files, now, pc, user_message, response_text,
           chunks, calls, last >>

config == << max_conversation_history, memory_persistence >>
memory == << current_conversation, conversations, user_facts >>
generator == << pc, user_message, response_text, chunks >>

(***************************************************************************)
(* Bounds of the model.                                                    *)
(***************************************************************************)
MaxHistory == 2          \* max_conversation_history is drawn from 0..MaxHistory
MaxCalls == 3            \* add_message calls in one behaviour of Spec
MaxAssistantCalls == 2   \* add_message calls in one behaviour of SpecAssistant
MaxClock == 1            \* largest clock reading in Spec
ContextHistory == 6      \* max_conversation_history in SpecContext
MaxContextCalls == 7     \* add_message calls in one behaviour of SpecContext
MaxDistDelta == 1        \* distances range over DistanceThreshold +/- MaxDistDelta
MaxChunks == 1           \* chunks of one response stream

(***************************************************************************)
(* Program constants.                                                      *)
(***************************************************************************)
RecentWindow == 5        \* current_conversation[-5:]
ContextResults == 3      \* search_memories(current_message, n_results=3)
DistanceThreshold == 7   \* memory['distance'] < 0.7, in tenths
ScenarioHistory == 50    \* MemoryConfig.max_conversation_history default

(***************************************************************************)
(* Strings.                                                                *)
(***************************************************************************)
RoleUser == <<"u","s","e","r">>
RoleAssistant == <<"a","s","s","i","s","t","a","n","t">>
Roles == {RoleUser, RoleAssistant}

MsgAlex == <<"m","y"," ","n","a","m","e"," ","i","s"," ","A","l","e","x">>
MsgPizza == <<"I"," ","a","m"," ","n","o","t"," ","s","u","r","e"," ","I"," ","l","i","k","e"," ","p","i","z","z","a">>
MsgHello == <<"h","e","l","l","o">>
ChunkIAm == <<"I"," ","a","m">>

CategoryExtracted == <<"e","x","t","r","a","c","t","e","d">>
CategoryGeneral == <<"g","e","n","e","r","a","l">>

UpperChars == <<"A","B","C","D","E","F","G","H","I","J","K","L","M","N","O","P","Q","R","S","T","U","V","W","X","Y","Z">>
LowerChars == <<"a","b","c","d","e","f","g","h","i","j","k","l","m","n","o","p","q","r","s","t","u","v","w","x","y","z">>

\* str.lower() on one character
LowerChar(c) ==
  IF \E i \in 1..Len(UpperChars) : UpperChars[i] = c
    THEN LowerChars[CHOOSE i \in 1..Len(UpperChars) : UpperChars[i] = c]
    ELSE c

\* str.lower()
Lower(s) == [i \in 1..Len(s) |-> LowerChar(s[i])]

\* sub in s
Contains(sub, s) ==
  \E i \in 0..(Len(s) - Len(sub)) : SubSeq(s, i + 1, i + Len(sub)) = sub

\* sep.join(parts)
RECURSIVE Join(_, _)
Join(sep, parts) ==
  IF parts = <<>> THEN <<>>
  ELSE IF Len(parts) = 1 THEN parts[1]
  ELSE parts[1] \o sep \o Join(sep, Tail(parts))

(***************************************************************************)
(* Python integer and list primitives.                                     *)
(***************************************************************************)
Min(a, b) == IF a < b THEN a ELSE b
Max(a, b) == IF a > b THEN a ELSE b

\* a // b for b > 0: rounds towards minus infinity
FloorDiv(a, b) == a \div b

\* s[start:]
SliceFrom(s, start) ==
  LET n == Len(s)
      lo == IF start < 0 THEN Max(n + start, 0) ELSE Min(start, n)
  IN  SubSeq(s, lo + 1, n)

\* {**base, **over}: a dict is a set of <<key, value>> pairs, later keys win
MergeDict(base, over) ==
  {p \in base : ~ \E q \in over : q[1] = p[1]} \cup over

\* metadata or {}: the optional argument is <<>> (None) or <<dict>>
OrEmptyDict(metadata) == IF metadata = <<>> THEN {} ELSE metadata[1]

(***************************************************************************)
(* The vector store, as the program uses it.  A collection is the sequence *)
(* of its records; add() of an id already present adds nothing.            *)
(***************************************************************************)
CollectionIds(coll) == {coll[i].id : i \in 1..Len(coll)}

CollectionAdd(coll, record) ==
  IF record.id \in CollectionIds(coll) THEN coll ELSE Append(coll, record)

(***************************************************************************)
(* ConversationMemory.                                                     *)
(***************************************************************************)
\* f"{message['role']}: {message['content']}"
SearchableText(message) == message.role \o <<":", " ">> \o message.content

\* _store_in_vector_db with the try/except removed: a failure leaves the method
store_in_vector_db_unguarded(coll, message, t_id, outcome) ==
  IF outcome = "ok"
    THEN [ coll |-> CollectionAdd(coll,
                      [ id |-> <<"msg", t_id>>,
                        document |-> SearchableText(message),
                        metadata |-> MergeDict({ <<"role", message.role>>,
                                                 <<"timestamp", message.timestamp>> },
                                               message.metadata) ]),
           raised |-> FALSE ]
    ELSE [ coll |-> coll, raised |-> TRUE ]

\* _store_in_vector_db: outcome "ok", or the step that raised
\*   ("encode_failed", "add_failed"); the except clause swallows both.
\*   Returns the collection and whether an exception left the method.
store_in_vector_db(coll, message, t_id, outcome) ==
  IF outcome = "ok"
    THEN [ coll |-> CollectionAdd(coll,
                      [ id |-> <<"msg", t_id>>,
                        document |-> SearchableText(message),
                        metadata |-> MergeDict({ <<"role", message.role>>,
                                                 <<"timestamp", message.timestamp>> },
                                               message.metadata) ]),
           raised |-> FALSE ]
    ELSE [ coll |-> coll, raised |-> FALSE ]

\* s[:stop] for stop >= 0
SliceTo(s, stop) == SubSeq(s, 1, Min(stop, Len(s)))

\* _summarize_old_conversation keeping the oldest half instead of the newest
summarize_old_conversation_head(conv, maxh) ==
  SliceTo(conv, FloorDiv(maxh, 2))

\* _summarize_old_conversation:
\*   current_conversation[-config.memory.max_conversation_history//2:]
summarize_old_conversation(conv, maxh) ==
  SliceFrom(conv, FloorDiv(-maxh, 2))

\* the compaction condition with >= in place of >
NeedsCompaction_at_max(conv, maxh) == Len(conv) >= maxh

\* the condition of add_message's last if statement
NeedsCompaction(conv, maxh) == Len(conv) > maxh

\* add_message on the memory [conv, coll]: t_msg and t_id are the two clock
\* readings.  Returns the new memory, the Turn, the number of compactions
\* and whether the call raised.
add_message(conv, coll, maxh, persist, role, content, metadata, t_msg, t_id, outcome) ==
  LET message == [ role |-> role, content |-> content, timestamp |-> t_msg,
                   metadata |-> OrEmptyDict(metadata) ]
      appended == Append(conv, message)
      stored == IF persist
                  THEN store_in_vector_db(coll, message, t_id, outcome)
                  ELSE [ coll |-> coll, raised |-> FALSE ]
  IN  IF stored.raised
        THEN [ conv |-> appended, coll |-> stored.coll, message |-> message,
               compactions |-> 0, raised |-> TRUE ]
        ELSE IF NeedsCompaction(appended, maxh)
          THEN [ conv |-> summarize_old_conversation(appended, maxh),
                 coll |-> stored.coll, message |-> message,
                 compactions |-> 1, raised |-> FALSE ]
          ELSE [ conv |-> appended, coll |-> stored.coll, message |-> message,
                 compactions |-> 0, raised |-> FALSE ]

\* store_user_fact with the try/except removed: a failure leaves the method
store_user_fact_unguarded(coll, fact, category, t_meta, t_id, outcome) ==
  IF outcome = "ok"
    THEN [ coll |-> CollectionAdd(coll,
                      [ id |-> <<"fact", t_id>>,
                        document |-> fact,
                        metadata |-> { <<"category", category>>,
                                       <<"timestamp", t_meta>> } ]),
           raised |-> FALSE ]
    ELSE [ coll |-> coll, raised |-> TRUE ]

\* store_user_fact: t_meta and t_id are the two clock readings; the except
\* clause swallows a failure of encode() or add().
store_user_fact(coll, fact, category, t_meta, t_id, outcome) ==
  IF outcome = "ok"
    THEN [ coll |-> CollectionAdd(coll,
                      [ id |-> <<"fact", t_id>>,
                        document |-> fact,
                        metadata |-> { <<"category", category>>,
                                       <<"timestamp", t_meta>> } ]),
           raised |-> FALSE ]
    ELSE [ coll |-> coll, raised |-> FALSE ]

\* the store's nearest-neighbour query: dist gives the distance of each
\* stored document's embedding to the query embedding (the embedder is
\* deterministic, so equal documents lie at equal distances); the result is
\* the n nearest records, closest first, insertion order among equals.
RECURSIVE NearestOf(_, _, _, _)
NearestOf(coll, dist, candidates, n) ==
  IF n <= 0 \/ candidates = {} THEN <<>>
  ELSE LET i == CHOOSE c \in candidates :
                  \A o \in candidates :
                    \/ dist[coll[c].document] < dist[coll[o].document]
                    \/ dist[coll[c].document] = dist[coll[o].document] /\ c <= o
       IN  << [ content |-> coll[i].document,
                metadata |-> coll[i].metadata,
                distance |-> dist[coll[i].document] ] >>
           \o NearestOf(coll, dist, candidates \ {i}, n - 1)

CollectionQuery(coll, dist, n_results) ==
  NearestOf(coll, dist, 1..Len(coll), n_results)

Documents(coll) == {coll[i].document : i \in 1..Len(coll)}

\* search_memories with the try/except removed: a failure leaves the method
search_memories_unguarded(coll, dist, n_results, outcome) ==
  IF outcome = "ok"
    THEN [ results |-> CollectionQuery(coll, dist, n_results), raised |-> FALSE ]
    ELSE [ results |-> <<>>, raised |-> TRUE ]

\* search_memories passing the whole collection on, whatever n_results is
search_memories_unlimited(coll, dist, n_results, outcome) ==
  IF outcome = "ok"
    THEN [ results |-> CollectionQuery(coll, dist, Len(coll)), raised |-> FALSE ]
    ELSE [ results |-> <<>>, raised |-> FALSE ]

\* search_memories: outcome "ok", or the step that raised ("encode_failed",
\* "query_failed"); the except clause returns [].  Returns the list and
\* whether an exception left the method.
search_memories(coll, dist, n_results, outcome) ==
  IF outcome = "ok"
    THEN [ results |-> CollectionQuery(coll, dist, n_results), raised |-> FALSE ]
    ELSE [ results |-> <<>>, raised |-> FALSE ]

RecentHeader == <<"R","e","c","e","n","t"," ","c","o","n","v","e","r","s","a","t","i","o","n",":">>
RelevantHeader == <<"\n","R","e","l","e","v","a","n","t"," ","p","a","s","t"," ","c","o","n","v","e","r","s","a","t","i","o","n","s",":">>

\* f"{msg['role']}: {msg['content']}"
RenderRecent(msg) == msg.role \o <<":", " ">> \o msg.content

\* f"- {memory['content']}"
RenderRelevant(mem) == <<"-", " ">> \o mem.content

\* the threshold test with <= in place of <
IsSimilar_inclusive(mem) == mem.distance <= DistanceThreshold

\* memory['distance'] < 0.7
IsSimilar(mem) == mem.distance < DistanceThreshold

\* get_context_for_response reading current_conversation[:5], the oldest turns
get_context_for_response_oldest(conv, relevant_memories) ==
  LET recent_messages == SliceTo(conv, RecentWindow)
      similar == SelectSeq(relevant_memories, IsSimilar)
      recency == IF recent_messages # <<>>
                   THEN <<RecentHeader>>
                        \o [i \in 1..Len(recent_messages) |->
                              RenderRecent(recent_messages[i])]
                   ELSE <<>>
      relevance == IF relevant_memories # <<>>
                     THEN <<RelevantHeader>>
                          \o [i \in 1..Len(similar) |-> RenderRelevant(similar[i])]
                     ELSE <<>>
  IN  Join(<<"\n">>, recency \o relevance)

\* get_context_for_response: relevant_memories is what search_memories returned
get_context_for_response(conv, relevant_memories) ==
  LET recent_messages == SliceFrom(conv, -RecentWindow)
      similar == SelectSeq(relevant_memories, IsSimilar)
      recency == IF recent_messages # <<>>
                   THEN <<RecentHeader>>
                        \o [i \in 1..Len(recent_messages) |->
                              RenderRecent(recent_messages[i])]
                   ELSE <<>>
      relevance == IF relevant_memories # <<>>
                     THEN <<RelevantHeader>>
                          \o [i \in 1..Len(similar) |-> RenderRelevant(similar[i])]
                     ELSE <<>>
  IN  Join(<<"\n">>, recency \o relevance)

(***************************************************************************)
(* AIAssistant.                                                            *)
(***************************************************************************)
fact_indicators ==
  << <<"m","y"," ","n","a","m","e"," ","i","s">>,
     <<"i"," ","a","m">>,
     <<"i"," ","l","i","k","e">>,
     <<"i"," ","l","o","v","e">>,
     <<"i"," ","w","o","r","k">>,
     <<"i"," ","l","i","v","e">>,
     <<"m","y"," ","f","a","v","o","r","i","t","e">>,
     <<"i"," ","e","n","j","o","y">>,
     <<"i"," ","h","a","t","e">>,
     <<"i"," ","d","o","n","'","t"," ","l","i","k","e">> >>

\* the indicators, by position, that occur in the lower-cased message
MatchingIndicators(message) ==
  LET lower_message == Lower(message)
  IN  {i \in 1..Len(fact_indicators) : Contains(fact_indicators[i], lower_message)}

\* _extract_user_facts without the break: one store per matching indicator
RECURSIVE StoreForEach(_, _, _, _, _)
StoreForEach(coll, message, matching, t, outcome) ==
  IF matching = {} THEN coll
  ELSE LET i == CHOOSE m \in matching : \A o \in matching : m <= o
       IN  StoreForEach(
             store_user_fact(coll, message, CategoryExtracted, t, t, outcome).coll,
             message, matching \ {i}, t + 1, outcome)

extract_user_facts_no_break(coll, message, t_meta, t_id, outcome) ==
  [ coll |-> StoreForEach(coll, message, MatchingIndicators(message), t_id, outcome),
    stored |-> Cardinality(MatchingIndicators(message)) ]

\* _extract_user_facts storing the matched phrase instead of the message
extract_user_facts_phrase(coll, message, t_meta, t_id, outcome) ==
  IF MatchingIndicators(message) = {}
    THEN [ coll |-> coll, stored |-> 0 ]
    ELSE [ coll |-> store_user_fact(coll,
                      fact_indicators[CHOOSE m \in MatchingIndicators(message) :
                                        \A o \in MatchingIndicators(message) : m <= o],
                      CategoryExtracted, t_meta, t_id, outcome).coll,
           stored |-> 1 ]

\* _extract_user_facts: the loop stores the whole message at the first
\* indicator found and breaks; stored counts the store_user_fact calls.
extract_user_facts(coll, message, t_meta, t_id, outcome) ==
  IF MatchingIndicators(message) = {}
    THEN [ coll |-> coll, stored |-> 0 ]
    ELSE [ coll |-> store_user_fact(coll, message, CategoryExtracted,
                                    t_meta, t_id, outcome).coll,
           stored |-> 1 ]

(***************************************************************************)
(* History of the last completed call.                                     *)
(***************************************************************************)
NoTurn == [ role |-> <<>>, content |-> <<>>, timestamp |-> 0, metadata |-> {} ]

NoLast ==
  [ op |-> "none", role |-> <<>>, content |-> <<>>, outcome |-> "none",
    raised |-> FALSE, compactions |-> 0, message |-> NoTurn,
    pre_conversation |-> <<>>, pre_conversations |-> <<>>, pre_user_facts |-> <<>>,
    pre_files |-> {},
    search |-> <<>>, text |-> <<>>,
    response |-> <<>>, completed |-> FALSE,
    n_results |-> 0, category |-> <<>>, facts |-> <<>>, dist |-> <<>>,
    id |-> <<>>, session_name |-> <<>>, path |-> <<>>, end_time |-> 0 ]

Snapshot(op) ==
  [ NoLast EXCEPT !.op = op,
                  !.pre_conversation = current_conversation,
                  !.pre_conversations = conversations,
                  !.pre_user_facts = user_facts,
                  !.pre_files = files ]

StoreOutcomes == {"ok", "encode_failed", "add_failed"}
Contents == {MsgHello, MsgAlex}
Metadatas == { <<>> }
SearchOutcomes == {"ok", "encode_failed", "query_failed"}
Distances == (DistanceThreshold - MaxDistDelta)..(DistanceThreshold + MaxDistDelta)

\* clock advance before a reading that keeps the clock within its bound
Ticks(t) == {d \in 0..1 : t + d <= MaxClock}

(***************************************************************************)
(* Initial state: the configuration is fixed at start-up, the buffer is    *)
(* empty after __init__, the collections are those of a fresh data_dir.    *)
(***************************************************************************)
InitMemory ==
  /\ current_conversation = <<>>
  /\ conversations = <<>>
  /\ user_facts = <<>>
  /\ files = {}
  /\ now = 0
  /\ pc = "idle"
  /\ user_message = <<>>
  /\ response_text = <<>>
  /\ chunks = 0
  /\ calls = <<>>
  /\ last = NoLast

Init ==
  /\ max_conversation_history \in 0..MaxHistory
  /\ memory_persistence \in BOOLEAN
  /\ InitMemory

(***************************************************************************)
(* A caller invokes memory.add_message(role, content, metadata).           *)
(***************************************************************************)
AddMessage(role, content, metadata, d1, d2, outcome) ==
  LET t_msg == now + d1
      t_id == t_msg + d2
      r == add_message(current_conversation, conversations,
                       max_conversation_history, memory_persistence,
                       role, content, metadata, t_msg, t_id, outcome)
  IN  /\ pc = "idle"
      /\ current_conversation' = r.conv
      /\ conversations' = r.coll
      /\ now' = t_id
      /\ calls' = Append(calls, <<role, content>>)
      /\ last' = [ Snapshot("add_message") EXCEPT
                     !.role = role, !.content = content,
                     !.outcome = IF memory_persistence THEN outcome ELSE "off",
                     !.raised = r.raised, !.compactions = r.compactions,
                     !.message = r.message, !.id = <<"msg", t_id>> ]
      /\ UNCHANGED << config, user_facts, files, generator >>

Next ==
  /\ Len(calls) < MaxCalls
  /\ \E role \in Roles, content \in Contents, metadata \in Metadatas,
        outcome \in StoreOutcomes :
       \E d1 \in Ticks(now) : \E d2 \in Ticks(now + d1) :
         AddMessage(role, content, metadata, d1, d2, outcome)

Spec == Init /\ [][Next]_vars

(***************************************************************************)
(* A caller invokes memory.store_user_fact(fact, category).                *)
(***************************************************************************)
StoreUserFact(fact, category, d1, d2, outcome) ==
  LET t_meta == now + d1
      t_id == t_meta + d2
      r == store_user_fact(user_facts, fact, category, t_meta, t_id, outcome)
  IN  /\ pc = "idle"
      /\ user_facts' = r.coll
      /\ now' = t_id
      /\ last' = [ Snapshot("store_user_fact") EXCEPT
                     !.content = fact, !.outcome = outcome, !.raised = r.raised,
                     !.category = category, !.id = <<"fact", t_id>> ]
      /\ UNCHANGED << config, current_conversation, conversations, files,
                      generator, calls >>

\* get_context_for_response that also cuts the buffer down to what it read
GetContextForResponse_trimming(current_message, outcome, dist) ==
  LET relevant_memories ==
        search_memories(conversations, dist, ContextResults, outcome).results
  IN  /\ pc = "idle"
      /\ current_conversation' = SliceFrom(current_conversation, -RecentWindow)
      /\ last' = [ Snapshot("get_context_for_response") EXCEPT
                     !.content = current_message, !.outcome = outcome,
                     !.search = relevant_memories,
                     !.text = get_context_for_response(current_conversation,
                                                       relevant_memories) ]
      /\ UNCHANGED << config, conversations, user_facts, files, now, generator, calls >>

(***************************************************************************)
(* A caller invokes memory.get_context_for_response(current_message).      *)
(***************************************************************************)
GetContextForResponse(current_message, outcome, dist) ==
  LET relevant_memories ==
        search_memories(conversations, dist, ContextResults, outcome).results
  IN  /\ pc = "idle"
      /\ last' = [ Snapshot("get_context_for_response") EXCEPT
                     !.content = current_message, !.outcome = outcome,
                     !.search = relevant_memories,
                     !.text = get_context_for_response(current_conversation,
                                                       relevant_memories) ]
      /\ UNCHANGED << config, memory, files, now, generator, calls >>

(***************************************************************************)
(* SpecContext: a session long enough for the recency window and the       *)
(* result cap to bind, read through get_context_for_response.  The clock   *)
(* advances between calls; user and assistant turns alternate, as          *)
(* generate_response writes them, the user opening with an introduction.   *)
(***************************************************************************)
TurnRole(k) == IF k % 2 = 1 THEN RoleUser ELSE RoleAssistant
TurnContent(k) == IF k = 1 THEN MsgAlex ELSE MsgHello

\* a record of "user_facts" written by an earlier process on the same data_dir
EarlierFact ==
  [ id |-> <<"fact", 0>>, document |-> MsgAlex,
    metadata |-> { <<"category", CategoryGeneral>>, <<"timestamp", 0>> } ]

InitContext ==
  /\ max_conversation_history = ContextHistory
  /\ memory_persistence \in BOOLEAN
  /\ current_conversation = <<>>
  /\ conversations = <<>>
  /\ user_facts \in { <<>>, <<EarlierFact>> }
  /\ files = {}
  /\ now = 0
  /\ pc = "idle"
  /\ user_message = <<>>
  /\ response_text = <<>>
  /\ chunks = 0
  /\ calls = <<>>
  /\ last = NoLast

NextContext ==
  \/ /\ Len(calls) < MaxContextCalls
     /\ AddMessage(TurnRole(Len(calls) + 1), TurnContent(Len(calls) + 1),
                   <<>>, 1, 0, "ok")
  \/ \E outcome \in SearchOutcomes :
       \E dist \in [Documents(conversations) -> Distances] :
         GetContextForResponse(MsgHello, outcome, dist)

SpecContext == InitContext /\ [][NextContext]_vars

(***************************************************************************)
(* AIAssistant.generate_response(user_message), a generator.               *)
(***************************************************************************)
UserMessages == {MsgAlex, MsgPizza, MsgHello}
ChatOutcomes == {"ok", "chat_failed"}
\* the content of a chunk; <<>> for a chunk without message content
Chunks == {ChunkIAm, <<>>}

\* generate_response storing the user message before it calls the model
GenerateStart_storing(message, outcome) ==
  /\ pc = "idle"
  /\ response_text' = <<>>
  /\ chunks' = 0
  /\ current_conversation' =
       Append(current_conversation,
              [ role |-> RoleUser, content |-> message, timestamp |-> now,
                metadata |-> {} ])
  /\ IF outcome = "ok"
       THEN /\ pc' = "streaming"
            /\ user_message' = message
            /\ last' = [ Snapshot("generate_response") EXCEPT
                           !.content = message, !.outcome = "streaming" ]
       ELSE /\ pc' = "idle"
            /\ user_message' = <<>>
            /\ last' = [ Snapshot("generate_response") EXCEPT
                           !.content = message, !.outcome = outcome ]
  /\ UNCHANGED << config, conversations, user_facts, files, now, calls >>

\* up to the ollama.chat call: the context and the stored facts are read
\* (nothing is written), then the stream is opened or the call raises and
\* the except clause yields the error message.  The history record keeps
\* the state in which the turn began until the turn ends.
GenerateStart(message, outcome) ==
  /\ pc = "idle"
  /\ response_text' = <<>>
  /\ chunks' = 0
  /\ IF outcome = "ok"
       THEN /\ pc' = "streaming"
            /\ user_message' = message
            /\ last' = [ Snapshot("generate_response") EXCEPT
                           !.content = message, !.outcome = "streaming" ]
       ELSE /\ pc' = "idle"
            /\ user_message' = <<>>
            /\ last' = [ Snapshot("generate_response") EXCEPT
                           !.content = message, !.outcome = outcome ]
  /\ UNCHANGED << config, memory, files, now, calls >>

\* for chunk in stream: a chunk with content is appended and yielded
StreamChunk(content) ==
  /\ pc = "streaming"
  /\ chunks < MaxChunks
  /\ response_text' = response_text \o content
  /\ chunks' = chunks + 1
  /\ UNCHANGED << config, memory, files, now, pc, user_message, calls, last >>

\* the stream raises while it is iterated: the except clause ends the turn
StreamFail ==
  /\ pc = "streaming"
  /\ pc' = "idle"
  /\ last' = [ last EXCEPT
                 !.content = user_message, !.response = response_text,
                 !.outcome = "stream_failed" ]
  /\ user_message' = <<>>
  /\ response_text' = <<>>
  /\ chunks' = 0
  /\ UNCHANGED << config, memory, files, now, calls >>

\* the consumer stops iterating after a yield: the generator never resumes
StreamAbandon ==
  /\ pc = "streaming"
  /\ response_text # <<>>
  /\ pc' = "idle"
  /\ last' = [ last EXCEPT
                 !.content = user_message, !.response = response_text,
                 !.outcome = "abandoned" ]
  /\ user_message' = <<>>
  /\ response_text' = <<>>
  /\ chunks' = 0
  /\ UNCHANGED << config, memory, files, now, calls >>

\* the stream ends: add_message("user", ...), add_message("assistant", ...),
\* _extract_user_facts(user_message); d is the clock advance before each call.
\* An exception leaving a call skips the calls after it.
StreamEnd(d, o_user, o_assistant, o_fact) ==
  LET t1 == now + d
      r1 == add_message(current_conversation, conversations,
                        max_conversation_history, memory_persistence,
                        RoleUser, user_message, <<>>, t1, t1, o_user)
      t2 == t1 + d
      r2 == IF r1.raised THEN r1
            ELSE add_message(r1.conv, r1.coll,
                             max_conversation_history, memory_persistence,
                             RoleAssistant, response_text, <<>>, t2, t2, o_assistant)
      t3 == t2 + d
      r3 == IF r1.raised \/ r2.raised THEN [ coll |-> user_facts, stored |-> 0 ]
            ELSE extract_user_facts(user_facts, user_message, t3, t3, o_fact)
  IN  /\ pc = "streaming"
      /\ pc' = "idle"
      /\ current_conversation' = r2.conv
      /\ conversations' = r2.coll
      /\ user_facts' = r3.coll
      /\ now' = t3
      /\ calls' = IF r1.raised THEN Append(calls, <<RoleUser, user_message>>)
                  ELSE calls \o << <<RoleUser, user_message>>,
                                   <<RoleAssistant, response_text>> >>
      /\ last' = [ last EXCEPT
                     !.content = user_message, !.response = response_text,
                     !.outcome = IF r3.stored = 0 THEN "none" ELSE o_fact,
                     !.raised = r1.raised \/ r2.raised,
                     !.completed = ~ (r1.raised \/ r2.raised) ]
      /\ user_message' = <<>>
      /\ response_text' = <<>>
      /\ chunks' = 0
      /\ UNCHANGED << config, files >>

(***************************************************************************)
(* SpecAssistant: turns through generate_response, and direct add_message  *)
(* calls on assistant.memory.  Every call sees the clock one tick on.      *)
(***************************************************************************)
NextAssistant ==
  \/ /\ Len(calls) < MaxAssistantCalls
     /\ \E role \in Roles : AddMessage(role, MsgAlex, <<>>, 1, 0, "ok")
  \/ \E message \in UserMessages, outcome \in ChatOutcomes :
       GenerateStart(message, outcome)
  \/ \E content \in Chunks : StreamChunk(content)
  \/ StreamFail
  \/ StreamAbandon
  \/ /\ Len(calls) + 2 <= MaxAssistantCalls
     /\ \E o_fact \in {"ok", "add_failed"} : StreamEnd(1, "ok", "ok", o_fact)

SpecAssistant == Init /\ [][NextAssistant]_vars

(***************************************************************************)
(* Session files: save_conversation_session and the JSON it writes.        *)
(***************************************************************************)
TicksPerSecond == 2      \* clock readings that fall within one second
MaxSessionClock == 2     \* largest clock reading in SpecSession
SessionHistory == 2      \* max_conversation_history in SpecSession
MaxSessionCalls == 3     \* add_message calls in one behaviour of SpecSession

DigitChars == <<"0","1","2","3","4","5","6","7","8","9">>

\* the decimal digits of n >= 0
RECURSIVE Digits(_)
Digits(n) ==
  IF n < 10 THEN << DigitChars[n + 1] >>
  ELSE Digits(n \div 10) \o << DigitChars[(n % 10) + 1] >>

\* datetime.now().strftime('%Y%m%d_%H%M%S'): the reading cut to its second
strftime(t) == Digits(t \div TicksPerSecond)

SessionPrefix == <<"s","e","s","s","i","o","n","_">>
ConversationsDir == <<"d","a","t","a","/","c","o","n","v","e","r","s","a","t","i","o","n","s">>
JsonSuffix == <<".","j","s","o","n">>

\* os.path.join(config.conversations_dir, f"{session_name}.json")
Filepath(session_name) == ConversationsDir \o <<"/">> \o session_name \o JsonSuffix

\* json.dump of a str: the characters between the quotes of the literal
RECURSIVE JsonEscape(_)
JsonEscape(text) ==
  IF text = <<>> THEN <<>>
  ELSE (CASE Head(text) = "\"" -> <<"\\", "\"">>
          [] Head(text) = "\\" -> <<"\\", "\\">>
          [] Head(text) = "\n" -> <<"\\", "n">>
          [] OTHER -> << Head(text) >>)
       \o JsonEscape(Tail(text))

\* json.load of a string literal
RECURSIVE JsonUnescape(_)
JsonUnescape(lit) ==
  IF lit = <<>> THEN <<>>
  ELSE IF Head(lit) = "\\" /\ Len(lit) >= 2
    THEN (IF lit[2] = "n" THEN <<"\n">> ELSE << lit[2] >>)
         \o JsonUnescape(SubSeq(lit, 3, Len(lit)))
    ELSE << Head(lit) >> \o JsonUnescape(Tail(lit))

\* json.dump of one Turn of the buffer
JsonDumpTurn(m) ==
  [ role |-> JsonEscape(m.role), content |-> JsonEscape(m.content),
    timestamp |-> m.timestamp,
    metadata |-> { <<p[1], JsonEscape(p[2])>> : p \in m.metadata } ]

\* json.load of one element of "messages"
JsonLoadTurn(j) ==
  [ role |-> JsonUnescape(j.role), content |-> JsonUnescape(j.content),
    timestamp |-> j.timestamp,
    metadata |-> { <<p[1], JsonUnescape(p[2])>> : p \in j.metadata } ]

\* json.dump(session_data, f, indent=2)
JsonDump(session_data) ==
  [ session_name |-> JsonEscape(session_data.session_name),
    start_time |-> session_data.start_time,
    end_time |-> session_data.end_time,
    messages |-> [i \in 1..Len(session_data.messages) |->
                    JsonDumpTurn(session_data.messages[i])],
    message_count |-> session_data.message_count ]

\* json.load of a session file
JsonLoad(data) ==
  [ session_name |-> JsonUnescape(data.session_name),
    start_time |-> data.start_time,
    end_time |-> data.end_time,
    messages |-> [i \in 1..Len(data.messages) |-> JsonLoadTurn(data.messages[i])],
    message_count |-> data.message_count ]

\* open(filepath, 'w') followed by the write: the file at path is replaced
WriteFile(fs, path, data) ==
  {f \in fs : f.path # path} \cup { [ path |-> path, data |-> data ] }

\* save_conversation_session writing current_conversation[1:] as "messages"
save_conversation_session_skipping_first(conv, fs, session_name, t_name, t_start, t_end, outcome) ==
  LET name == IF session_name = <<>> THEN SessionPrefix \o strftime(t_name)
              ELSE session_name
      filepath == Filepath(name)
      session_data ==
        [ session_name |-> name,
          start_time |-> IF conv # <<>> THEN conv[1].timestamp ELSE t_start,
          end_time |-> t_end,
          messages |-> SliceFrom(conv, 1),
          message_count |-> Len(conv) ]
  IN  CASE outcome = "ok" ->
             [ files |-> WriteFile(fs, filepath, << JsonDump(session_data) >>),
               path |-> filepath, raised |-> FALSE ]
        [] outcome = "open_failed" ->
             [ files |-> fs, path |-> <<>>, raised |-> TRUE ]
        [] OTHER ->
             [ files |-> WriteFile(fs, filepath, <<>>),
               path |-> <<>>, raised |-> TRUE ]

\* save_conversation_session with the write wrapped in a try/except that
\* logs the failure and returns None
save_conversation_session_swallowing(conv, fs, session_name, t_name, t_start, t_end, outcome) ==
  LET name == IF session_name = <<>> THEN SessionPrefix \o strftime(t_name)
              ELSE session_name
      filepath == Filepath(name)
      session_data ==
        [ session_name |-> name,
          start_time |-> IF conv # <<>> THEN conv[1].timestamp ELSE t_start,
          end_time |-> t_end,
          messages |-> conv,
          message_count |-> Len(conv) ]
  IN  CASE outcome = "ok" ->
             [ files |-> WriteFile(fs, filepath, << JsonDump(session_data) >>),
               path |-> filepath, raised |-> FALSE ]
        [] outcome = "open_failed" ->
             [ files |-> fs, path |-> <<>>, raised |-> FALSE ]
        [] OTHER ->
             [ files |-> WriteFile(fs, filepath, <<>>),
               path |-> <<>>, raised |-> FALSE ]

\* save_conversation_session: session_name is <<>> for None or ""; t_name,
\* t_start and t_end are the readings of the clock; outcome is "ok", or
\* "open_failed" (open raises), or "write_failed" (json.dump raises after
\* open has truncated the file).  No except clause: a failure leaves the
\* method.  Returns the files, the path returned and whether it raised.
save_conversation_session(conv, fs, session_name, t_name, t_start, t_end, outcome) ==
  LET name == IF session_name = <<>> THEN SessionPrefix \o strftime(t_name)
              ELSE session_name
      filepath == Filepath(name)
      session_data ==
        [ session_name |-> name,
          start_time |-> IF conv # <<>> THEN conv[1].timestamp ELSE t_start,
          end_time |-> t_end,
          messages |-> conv,
          message_count |-> Len(conv) ]
  IN  CASE outcome = "ok" ->
             [ files |-> WriteFile(fs, filepath, << JsonDump(session_data) >>),
               path |-> filepath, raised |-> FALSE ]
        [] outcome = "open_failed" ->
             [ files |-> fs, path |-> <<>>, raised |-> TRUE ]
        [] OTHER ->
             [ files |-> WriteFile(fs, filepath, <<>>),
               path |-> <<>>, raised |-> TRUE ]

(***************************************************************************)
(* A caller invokes memory.save_conversation_session(session_name), or     *)
(* assistant.save_session() with no name.                                  *)
(***************************************************************************)
SaveConversationSession(session_name, d, outcome) ==
  LET t == now + d
      r == save_conversation_session(current_conversation, files, session_name,
                                     t, t, t, outcome)
  IN  /\ pc = "idle"
      /\ files' = r.files
      /\ now' = t
      /\ last' = [ Snapshot("save_conversation_session") EXCEPT
                     !.outcome = outcome, !.raised = r.raised,
                     !.session_name = session_name, !.path = r.path,
                     !.end_time = t ]
      /\ UNCHANGED << config, memory, generator, calls >>

MsgQuote == <<"s","a","y"," ","\"","h","i","\"","\\","n">>
NameDemo == <<"d","e","m","o">>
MetaSource == { << "source", <<"c","l","i">> >> }

\* the content and the metadata of the k-th add_message call of a session
SessionContent(k) == IF k % 2 = 1 THEN MsgQuote ELSE MsgHello
SessionMetadata(k) == IF k % 2 = 1 THEN << MetaSource >> ELSE <<>>
SessionNames == { <<>>, NameDemo }
SaveOutcomes == {"ok", "open_failed", "write_failed"}
SessionTicks(t) == {d \in 0..1 : t + d <= MaxSessionClock}

(***************************************************************************)
(* SpecSession: a session of alternating turns, saved at any point, with   *)
(* and without a name; a save may follow another within the same second.   *)
(* The clock advances between turns; a save reads it as the last turn did. *)
(***************************************************************************)
InitSession ==
  /\ max_conversation_history = SessionHistory
  /\ memory_persistence \in BOOLEAN
  /\ InitMemory

NextSession ==
  \/ /\ Len(calls) < MaxSessionCalls
     /\ \E d \in SessionTicks(now) :
          AddMessage(TurnRole(Len(calls) + 1), SessionContent(Len(calls) + 1),
                     SessionMetadata(Len(calls) + 1), d, 0, "ok")
  \/ \E session_name \in SessionNames, outcome \in SaveOutcomes :
       SaveConversationSession(session_name, 0, outcome)

SpecSession == InitSession /\ [][NextSession]_vars

(***************************************************************************)
(* Reading the collections: get_user_facts and search_memories.            *)
(***************************************************************************)
MaxFactClock == 1        \* largest clock reading in SpecFacts
MaxFactCalls == 2        \* add_message calls in one behaviour of SpecFacts

FactResults == 5         \* self.user_facts.query(..., n_results=5)

\* meta.get(key): the value, or <<>> for None
MetaGet(meta, key) ==
  IF \E p \in meta : p[1] = key
    THEN (CHOOSE p \in meta : p[1] = key)[2]
    ELSE <<>>

\* self.user_facts.get(): every record; documents and metadatas are flat lists
CollectionGet(coll) ==
  [ nested |-> FALSE,
    documents |-> [i \in 1..Len(coll) |-> coll[i].document],
    metadatas |-> [i \in 1..Len(coll) |-> coll[i].metadata] ]

\* self.user_facts.query(query_embeddings=[e], n_results=n): documents and
\* metadatas hold one list per query embedding
QueryResults(coll, dist, n_results) ==
  LET nearest == CollectionQuery(coll, dist, n_results)
  IN  [ nested |-> TRUE,
        documents |-> << [i \in 1..Len(nearest) |-> nearest[i].content] >>,
        metadatas |-> << [i \in 1..Len(nearest) |-> nearest[i].metadata] >> ]

\* the filter loop keeping the facts whose category differs
RECURSIVE FilterByCategory_others(_, _, _)
FilterByCategory_others(facts, metadatas, category) ==
  IF facts = <<>> \/ metadatas = <<>> THEN <<>>
  ELSE (IF MetaGet(Head(metadatas), "category") # category
          THEN << Head(facts) >> ELSE <<>>)
       \o FilterByCategory_others(Tail(facts), Tail(metadatas), category)

\* for fact, meta in zip(facts, metadatas):
\*     if meta.get('category') == category: filtered_facts.append(fact)
RECURSIVE FilterByCategory(_, _, _)
FilterByCategory(facts, metadatas, category) ==
  IF facts = <<>> \/ metadatas = <<>> THEN <<>>
  ELSE (IF MetaGet(Head(metadatas), "category") = category
          THEN << Head(facts) >> ELSE <<>>)
       \o FilterByCategory(Tail(facts), Tail(metadatas), category)

\* get_user_facts: query is <<>> for "", category is <<>> for None or "";
\* outcome is "ok" or the step that raised ("encode_failed", "query_failed"
\* for query() or get()); the except clause returns [].  Returns the list
\* and whether an exception left the method.
get_user_facts(coll, query, category, dist, outcome) ==
  LET results == IF query # <<>> THEN QueryResults(coll, dist, FactResults)
                 ELSE CollectionGet(coll)
      facts == IF results.documents # <<>>
                 THEN (IF results.nested THEN results.documents[1]
                       ELSE results.documents)
                 ELSE <<>>
      metadatas == IF results.metadatas = <<>> THEN <<>>
                   ELSE IF results.nested THEN results.metadatas[1]
                   ELSE results.metadatas
  IN  IF outcome # "ok" THEN [ facts |-> <<>>, raised |-> FALSE ]
      ELSE IF category # <<>> /\ results.metadatas # <<>>
        THEN [ facts |-> FilterByCategory(facts, metadatas, category),
               raised |-> FALSE ]
        ELSE [ facts |-> facts, raised |-> FALSE ]

(***************************************************************************)
(* A caller invokes memory.get_user_facts(query, category).                *)
(***************************************************************************)
GetUserFacts(query, category, outcome, dist) ==
  LET r == get_user_facts(user_facts, query, category, dist, outcome)
  IN  /\ pc = "idle"
      /\ last' = [ Snapshot("get_user_facts") EXCEPT
                     !.content = query, !.category = category,
                     !.outcome = outcome, !.raised = r.raised,
                     !.facts = r.facts,
                     !.dist = IF outcome = "ok" /\ query # <<>> THEN dist ELSE <<>> ]
      /\ UNCHANGED << config, memory, files, now, generator, calls >>

(***************************************************************************)
(* A caller invokes memory.search_memories(query, n_results).              *)
(***************************************************************************)
SearchMemories(query, n_results, outcome, dist) ==
  LET r == search_memories(conversations, dist, n_results, outcome)
  IN  /\ pc = "idle"
      /\ last' = [ Snapshot("search_memories") EXCEPT
                     !.content = query, !.n_results = n_results,
                     !.outcome = outcome, !.raised = r.raised,
                     !.search = r.results,
                     !.dist = IF outcome = "ok" THEN dist ELSE <<>> ]
      /\ UNCHANGED << config, memory, files, now, generator, calls >>

CategoryPersonal == <<"p","e","r","s","o","n","a","l">>
CategoryInterests == <<"i","n","t","e","r","e","s","t","s">>
FactCategories == {CategoryPersonal, CategoryInterests}
Facts == {MsgAlex, MsgPizza}
\* the category a caller files a fact under: the name is personal
FactCategory(fact) == IF fact = MsgAlex THEN CategoryPersonal ELSE CategoryInterests
FactQueries == { <<>>, MsgHello }
FactOutcomes == {"ok", "encode_failed", "add_failed"}
\* the steps of a read that can raise: encode() runs only for a query
ReadOutcomes(query) ==
  IF query = <<>> THEN {"ok", "query_failed"}
  ELSE {"ok", "encode_failed", "query_failed"}
\* a document lies nearer to the query than the threshold or at it
FactDistances == {DistanceThreshold - 1, DistanceThreshold}
FactTicks(t) == {d \in 0..1 : t + d <= MaxFactClock}

\* records of "user_facts" written by earlier processes on the same data_dir
EarlierFacts ==
  [ i \in 1..FactResults |->
      [ id |-> <<"fact", i - 1 - FactResults>>,
        document |-> IF i % 2 = 1 THEN MsgAlex ELSE MsgPizza,
        metadata |-> { <<"category", IF i <= 2 THEN CategoryPersonal
                                     ELSE CategoryInterests>>,
                       <<"timestamp", i - 1 - FactResults>> } ] ]

(***************************************************************************)
(* SpecFacts: facts and turns are stored, the clock standing still or      *)
(* advancing between two readings, and both collections are read.  A read  *)
(* changes nothing but the history record, so whatever can follow a read   *)
(* can follow the state the read was made in: the calls after a read are   *)
(* explored from that state.                                               *)
(***************************************************************************)
ReadOps == {"get_user_facts", "search_memories"}

InitFacts ==
  /\ max_conversation_history = ContextHistory
  /\ memory_persistence = TRUE
  /\ current_conversation = <<>>
  /\ conversations = <<>>
  /\ user_facts \in { <<>>, EarlierFacts }
  /\ files = {}
  /\ now = 0
  /\ pc = "idle"
  /\ user_message = <<>>
  /\ response_text = <<>>
  /\ chunks = 0
  /\ calls = <<>>
  /\ last = NoLast

NextFacts ==
  /\ last.op \notin ReadOps
  /\ \/ /\ Len(calls) < MaxFactCalls
        /\ \E d \in FactTicks(now) :
             AddMessage(TurnRole(Len(calls) + 1), MsgHello, <<>>, d, 0, "ok")
     \/ \E fact \in Facts, outcome \in FactOutcomes :
          \E d \in FactTicks(now) :
            StoreUserFact(fact, FactCategory(fact), d, 0, outcome)
     \/ \E query \in FactQueries, category \in FactCategories \cup { <<>> } :
          \E outcome \in ReadOutcomes(query) :
            \E dist \in [Documents(user_facts) -> FactDistances] :
              GetUserFacts(query, category, outcome, dist)
     \/ \E n_results \in 0..MaxFactCalls, outcome \in SearchOutcomes :
          \E dist \in [Documents(conversations) -> FactDistances] :
            SearchMemories(MsgHello, n_results, outcome, dist)

SpecFacts == InitFacts /\ [][NextFacts]_vars

(***************************************************************************)
(* SpecMetadata: callers pass add_message a metadata argument: None, a     *)
(* dict of their own keys, or a dict that has a role or a timestamp key.   *)
(***************************************************************************)
MaxMetaCalls == 2

RoleSystem == <<"s","y","s","t","e","m">>
\* a caller's own timestamp: a time before the process started
CallerTimestamp == 0 - 1
MetaRole == { << "role", RoleSystem >> }
MetaTimestamp == { << "timestamp", CallerTimestamp >> }
CallerMetadatas ==
  { <<>>, << MetaSource >>, << MetaRole >>, << MetaTimestamp >>,
    << MetaSource \cup MetaRole \cup MetaTimestamp >> }
MetaOutcomes == {"ok", "add_failed"}

InitMetadata ==
  /\ max_conversation_history = ContextHistory
  /\ memory_persistence \in BOOLEAN
  /\ InitMemory

NextMetadata ==
  /\ Len(calls) < MaxMetaCalls
  /\ \E metadata \in CallerMetadatas, outcome \in MetaOutcomes :
       \E d \in Ticks(now) :
         AddMessage(TurnRole(Len(calls) + 1), MsgHello, metadata, d, 0, outcome)

SpecMetadata == InitMetadata /\ [][NextMetadata]_vars

(***************************************************************************)
(* Properties of add_message and compaction (checked under Spec).          *)
(***************************************************************************)
AddMessageReturned == last.op = "add_message" /\ ~ last.raised

\* the buffer as add_message extended it, before any compaction
Appended == Append(last.pre_conversation, last.message)

IsSuffix(s, t) ==
  /\ Len(s) <= Len(t)
  /\ s = SubSeq(t, Len(t) - Len(s) + 1, Len(t))

\* C1: whenever an add_message call has returned, the buffer holds at most
\* max_conversation_history turns, for every configured maximum >= 0.
C1_LengthWithinMax ==
  AddMessageReturned => Len(current_conversation) <= max_conversation_history

\* C2: a call that makes the buffer exceed max_conversation_history compacts
\* exactly once and leaves max_conversation_history // 2 turns; a call that
\* does not exceed the maximum never compacts.
C2_CompactsToFloorHalf ==
  AddMessageReturned =>
    IF Len(Appended) > max_conversation_history
      THEN /\ last.compactions = 1
           /\ Len(current_conversation) = max_conversation_history \div 2
      ELSE /\ last.compactions = 0
           /\ current_conversation = Appended

\* the 50-turn scenario: turns 1..50 in the buffer, the 51st being added
ScenarioTurn(i) ==
  [ role |-> TurnRole(i),
    content |-> MsgHello, timestamp |-> i, metadata |-> {} ]

ScenarioBuffer == [i \in 1..ScenarioHistory |-> ScenarioTurn(i)]

ScenarioResult ==
  add_message(ScenarioBuffer, <<>>, ScenarioHistory, TRUE, RoleUser, MsgHello,
              <<>>, ScenarioHistory + 1, ScenarioHistory + 1, "ok")

\* C3: after a compaction the buffer is a contiguous suffix of the buffer as
\* it stood with the new turn appended, ending in the turn just added; with
\* a maximum of 50 and 50 turns buffered, one more add_message leaves the 25
\* most recent of the 51 turns.
C3_CompactionKeepsSuffix ==
  /\ (AddMessageReturned /\ last.compactions > 0) =>
       /\ IsSuffix(current_conversation, Appended)
       /\ current_conversation # <<>>
       /\ current_conversation[Len(current_conversation)] = last.message
       /\ last.message.role = last.role
       /\ last.message.content = last.content
  /\ ScenarioResult.compactions = 1
  /\ Len(ScenarioResult.conv) = 25
  /\ ScenarioResult.conv =
       [i \in 1..25 |-> ScenarioTurn(ScenarioHistory + 1 - 25 + i)]

C3_Witness ==
  /\ AddMessageReturned
  /\ last.compactions = 1
  /\ Len(Appended) = 3
  /\ Len(current_conversation) = 1
  /\ Appended[2] # Appended[3]

\* C4: while no more than max_conversation_history calls have been made on
\* the empty buffer, the buffer holds one turn per call, in call order, with
\* the role and content of that call.
C4_BufferIsCallLog ==
  Len(calls) <= max_conversation_history =>
    /\ Len(current_conversation) = Len(calls)
    /\ \A i \in 1..Len(calls) :
         /\ current_conversation[i].role = calls[i][1]
         /\ current_conversation[i].content = calls[i][2]

C4_Witness ==
  /\ Len(calls) = 2
  /\ max_conversation_history = 2
  /\ calls[1] # calls[2]
  /\ Len(current_conversation) = 2

StoreFailed == last.outcome \in {"encode_failed", "add_failed"}

\* C5: when the embedding or the insert fails, add_message still returns
\* normally with the new turn at the tail of the buffer and the compaction
\* check applied (the buffer is the one a successful call produces); the
\* "conversations" collection gets no record.
C5_StoreFailureIsSwallowed ==
  (last.op = "add_message" /\ StoreFailed) =>
    /\ ~ last.raised
    /\ current_conversation # <<>>
    /\ current_conversation[Len(current_conversation)] = last.message
    /\ last.message.role = last.role /\ last.message.content = last.content
    /\ last.compactions = (IF Len(Appended) > max_conversation_history THEN 1 ELSE 0)
    /\ current_conversation =
         add_message(last.pre_conversation, last.pre_conversations,
                     max_conversation_history, memory_persistence,
                     last.role, last.content, <<>>,
                     last.message.timestamp, last.message.timestamp, "ok").conv
    /\ conversations = last.pre_conversations
    /\ user_facts = last.pre_user_facts

C5_Witness ==
  /\ last.op = "add_message"
  /\ StoreFailed
  /\ ~ last.raised
  /\ last.compactions = 1
  /\ last.pre_conversations # <<>>

(***************************************************************************)
(* Properties of get_context_for_response (checked under SpecContext).     *)
(***************************************************************************)
\* text.split("\n")
SplitLines(text) ==
  LET breaks == {i \in 1..Len(text) : text[i] = "\n"}
      BreakAt(k) == CHOOSE i \in breaks : Cardinality({j \in breaks : j < i}) = k - 1
      n == Cardinality(breaks)
  IN  [k \in 1..(n + 1) |->
         SubSeq(text,
                IF k = 1 THEN 1 ELSE BreakAt(k - 1) + 1,
                IF k = n + 1 THEN Len(text) ELSE BreakAt(k) - 1)]

ContextLines == SplitLines(last.text)

\* the header lines without the separator that precedes them
RecentHeaderLine == RecentHeader
RelevantHeaderLine == Tail(RelevantHeader)

HeaderAt(lines, header) == {i \in 1..Len(lines) : lines[i] = header}

\* the lines under the relevance header
RelevanceEntries(lines) ==
  IF HeaderAt(lines, RelevantHeaderLine) = {} THEN <<>>
  ELSE LET h == CHOOSE i \in HeaderAt(lines, RelevantHeaderLine) : TRUE
       IN  SubSeq(lines, h + 1, Len(lines))

\* the lines under the recency header, up to the blank separator line
RecencyEntries(lines) ==
  IF HeaderAt(lines, RecentHeaderLine) = {} THEN <<>>
  ELSE LET h == CHOOSE i \in HeaderAt(lines, RecentHeaderLine) : TRUE
           blanks == {i \in 1..Len(lines) : i > h /\ lines[i] = <<>>}
           stop == IF blanks = {} THEN Len(lines)
                   ELSE (CHOOSE i \in blanks : \A j \in blanks : i <= j) - 1
       IN  SubSeq(lines, h + 1, stop)

ContextReturned == last.op = "get_context_for_response"

\* C6: the returned text holds at most 3 relevance entries, none of them a
\* search result at distance >= 0.7, and at most 5 recency entries.
C6_ContextIsBounded ==
  ContextReturned =>
    LET rel == RelevanceEntries(ContextLines)
        rec == RecencyEntries(ContextLines)
    IN  /\ Len(rel) <= ContextResults
        /\ Len(rec) <= RecentWindow
        /\ \A i \in 1..Len(rel) :
             /\ \E j \in 1..Len(last.search) :
                  rel[i] = <<"-", " ">> \o last.search[j].content
             /\ \A j \in 1..Len(last.search) :
                  rel[i] = <<"-", " ">> \o last.search[j].content
                    => last.search[j].distance < DistanceThreshold

C6_Witness ==
  /\ ContextReturned
  /\ Len(current_conversation) > RecentWindow
  /\ Len(conversations) > ContextResults
  /\ Len(RecencyEntries(ContextLines)) = RecentWindow
  /\ Len(last.search) = ContextResults
  /\ Len(RelevanceEntries(ContextLines)) = 1
  /\ \E j \in 1..Len(last.search) : last.search[j].distance = DistanceThreshold

\* C7: the relevance header is in the returned text only if some search
\* result lies at a distance strictly below 0.7.
C7_HeaderOnlyWithRelevantResult ==
  ContextReturned =>
    (HeaderAt(ContextLines, RelevantHeaderLine) # {}
       => \E j \in 1..Len(last.search) : last.search[j].distance < DistanceThreshold)

\* C8: get_context_for_response leaves the buffer and both collections as
\* they were, whether the search succeeds or fails.
C8_ContextReadsOnly ==
  ContextReturned =>
    /\ current_conversation = last.pre_conversation
    /\ conversations = last.pre_conversations
    /\ user_facts = last.pre_user_facts

C8_Witness ==
  /\ ContextReturned
  /\ last.outcome = "query_failed"
  /\ Len(current_conversation) > RecentWindow
  /\ conversations # <<>>
  /\ user_facts # <<>>

(***************************************************************************)
(* Properties of fact extraction (checked under SpecAssistant).            *)
(***************************************************************************)
\* the lower-cased text contains one of the indicator phrases
HasIndicator(text) ==
  \E i \in 1..Len(fact_indicators) : Contains(fact_indicators[i], Lower(text))

IndicatorCount(text) ==
  Cardinality({i \in 1..Len(fact_indicators) : Contains(fact_indicators[i], Lower(text))})

TurnCompleted == last.op = "generate_response" /\ last.completed

\* the records added to "user_facts" by the last call
AddedFacts == SubSeq(user_facts, Len(last.pre_user_facts) + 1, Len(user_facts))

FactsOnlyGrew ==
  /\ Len(user_facts) >= Len(last.pre_user_facts)
  /\ SubSeq(user_facts, 1, Len(last.pre_user_facts)) = last.pre_user_facts

IsExtractedFact(record, text) ==
  /\ record.document = text
  /\ \E p \in record.metadata : p = <<"category", CategoryExtracted>>

C10_AtMostOneFactPerTurn ==
  /\ last.op = "add_message" => user_facts = last.pre_user_facts
  /\ last.op = "generate_response" =>
       /\ FactsOnlyGrew
       /\ Len(AddedFacts) <= 1
       /\ \A i \in 1..Len(AddedFacts) : IsExtractedFact(AddedFacts[i], last.content)
       /\ ~ HasIndicator(last.content) => AddedFacts = <<>>
       /\ ~ last.completed => AddedFacts = <<>>

C10_Witness ==
  /\ TurnCompleted
  /\ IndicatorCount(last.content) = 2
  /\ HasIndicator(last.response)
  /\ last.response # last.content
  /\ Len(AddedFacts) = 1

C10_WitnessAssistantOnly ==
  /\ TurnCompleted
  /\ ~ HasIndicator(last.content)
  /\ HasIndicator(last.response)
  /\ AddedFacts = <<>>

(***************************************************************************)
(* Properties of save_conversation_session (checked under SpecSession).    *)
(***************************************************************************)
SaveCalled == last.op = "save_conversation_session"
SaveReturned == SaveCalled /\ ~ last.raised

FileAt(fs, path) == CHOOSE f \in fs : f.path = path

\* C11: the record a save writes holds the buffer's turns, in order, and
\* its length, as they stand at the save, so that loading the file gives
\* back the same turns and count; after a compaction these are the
\* surviving turns only.
C11_SavedRecordIsBuffer ==
  SaveReturned =>
    /\ \E f \in files : f.path = last.path
    /\ FileAt(files, last.path).data # <<>>
    /\ LET reloaded == JsonLoad(FileAt(files, last.path).data[1])
       IN  /\ reloaded.messages = current_conversation
           /\ reloaded.messages = last.pre_conversation
           /\ reloaded.message_count = Len(current_conversation)
           /\ Len(reloaded.messages) = reloaded.message_count

C11_Witness ==
  /\ SaveReturned
  /\ Len(calls) > Len(current_conversation)
  /\ Len(current_conversation) = 1
  /\ current_conversation[1].content = MsgQuote
  /\ current_conversation[1].metadata # {}
  /\ JsonLoad(FileAt(files, last.path).data[1]).message_count = 1

C11_WitnessEmpty ==
  /\ SaveReturned
  /\ current_conversation = <<>>
  /\ JsonLoad(FileAt(files, last.path).data[1]).message_count = 0

\* C12: a save without a caller-supplied name never writes to the path of
\* a file that an earlier save has written, also when the two saves fall
\* within the same second.
C12_DefaultSavesAreDistinct ==
  (SaveReturned /\ last.session_name = <<>>) =>
    ~ \E f \in last.pre_files : f.path = last.path /\ f.data # <<>>

\* C20: a save that cannot write its file raises to the caller and returns
\* no path; failed or not, a save leaves the buffer and both collections as
\* they were before the call.
C20_SaveFailurePropagates ==
  SaveCalled =>
    /\ current_conversation = last.pre_conversation
    /\ conversations = last.pre_conversations
    /\ user_facts = last.pre_user_facts
    /\ last.outcome # "ok" => (last.raised /\ last.path = <<>>)
    /\ last.outcome = "ok" => (~ last.raised /\ last.path # <<>>)

C20_Witness ==
  /\ SaveCalled
  /\ last.outcome = "write_failed"
  /\ last.raised
  /\ current_conversation # <<>>
  /\ conversations # <<>>
  /\ \E f \in last.pre_files : f.data # <<>>

(***************************************************************************)
(* Properties of the collections (checked under SpecFacts and Spec).       *)
(***************************************************************************)
IsPrefix(s, t) == Len(s) <= Len(t) /\ s = SubSeq(t, 1, Len(s))

\* C13: within each collection, every insert uses an id that no record of
\* the collection has yet, also when the clock does not advance between
\* two calls.
C13_InsertIdsAreFresh ==
  /\ (last.op = "add_message" /\ last.outcome = "ok") =>
       last.id \notin CollectionIds(last.pre_conversations)
  /\ (last.op = "store_user_fact" /\ last.outcome = "ok") =>
       last.id \notin CollectionIds(last.pre_user_facts)

\* C14: "conversations" only grows; with persistence on and no store
\* failure an add_message call adds exactly one record, with persistence
\* off none, compaction or not.
C14_ConversationsAppendOnly ==
  /\ IsPrefix(last.pre_conversations, conversations)
  /\ (last.op = "add_message" /\ last.outcome = "ok") =>
       Len(conversations) = Len(last.pre_conversations) + 1
  /\ (last.op = "add_message" /\ last.outcome = "off") =>
       conversations = last.pre_conversations

(***************************************************************************)
(* Properties of search_memories and get_user_facts (under SpecFacts).     *)
(***************************************************************************)
SearchReturned == last.op = "search_memories"
FactsReturned == last.op = "get_user_facts"

\* C15: search_memories raises nothing and returns [] when the embedding or
\* the query fails and when "conversations" is empty; get_user_facts raises
\* nothing and returns [] when the embedding, the query or the get fails.
C15_ReadsNeverRaise ==
  /\ SearchReturned =>
       /\ ~ last.raised
       /\ last.outcome # "ok" => last.search = <<>>
       /\ conversations = <<>> => last.search = <<>>
  /\ FactsReturned =>
       /\ ~ last.raised
       /\ last.outcome # "ok" => last.facts = <<>>

C15_Witness ==
  /\ SearchReturned
  /\ last.outcome = "query_failed"
  /\ last.n_results > 0
  /\ Len(conversations) = 2
  /\ last.search = <<>>

C15_WitnessFacts ==
  /\ FactsReturned
  /\ last.outcome = "encode_failed"
  /\ user_facts # <<>>
  /\ last.facts = <<>>

C15_WitnessEmpty ==
  /\ SearchReturned
  /\ last.outcome = "ok"
  /\ last.n_results > 0
  /\ conversations = <<>>
  /\ user_facts # <<>>

\* what the store hands to get_user_facts before any filter: every record
\* for an empty query, the 5 nearest for another, as text and category
UnfilteredEntries ==
  IF last.content = <<>>
    THEN [i \in 1..Len(user_facts) |->
            [ text |-> user_facts[i].document,
              category |-> MetaGet(user_facts[i].metadata, "category") ]]
    ELSE LET nearest == CollectionQuery(user_facts, last.dist, FactResults)
         IN  [i \in 1..Len(nearest) |->
                [ text |-> nearest[i].content,
                  category |-> MetaGet(nearest[i].metadata, "category") ]]

InCategory(entry) == entry.category = last.category

C16_WitnessAll ==
  /\ FactsReturned /\ last.outcome = "ok"
  /\ last.content = <<>>
  /\ last.category = CategoryInterests
  /\ Len(user_facts) = 2
  /\ Len(last.facts) = 1
  /\ MetaGet(user_facts[1].metadata, "category") = CategoryPersonal

\* C17: search_memories returns at most n_results results, each a record of
\* "conversations" with its distance to the query, closest first, in the
\* order the store's query delivered them.
C17_SearchIsBoundedAndSorted ==
  SearchReturned =>
    /\ Len(last.search) <= last.n_results
    /\ Len(last.search) <= Len(conversations)
    /\ \A i \in 1..Len(last.search) :
         \E k \in 1..Len(conversations) :
           /\ last.search[i].content = conversations[k].document
           /\ last.search[i].metadata = conversations[k].metadata
           /\ last.search[i].distance = last.dist[conversations[k].document]
    /\ \A i \in 1..Len(last.search) : \A j \in i..Len(last.search) :
         last.search[i].distance <= last.search[j].distance
    /\ last.outcome = "ok" =>
         last.search = CollectionQuery(conversations, last.dist, last.n_results)

C17_Witness ==
  /\ SearchReturned
  /\ last.outcome = "ok"
  /\ Len(conversations) = 2
  /\ last.n_results = 1
  /\ Len(last.search) = 1
  /\ last.search[1].content = conversations[2].document
  /\ last.dist[conversations[2].document] < last.dist[conversations[1].document]

(***************************************************************************)
(* Order of a turn of generate_response (checked under SpecAssistant).     *)
(***************************************************************************)
TurnNotCompleted == last.op = "generate_response" /\ ~ last.completed

\* the records added to "conversations" by the last call
AddedRecords ==
  SubSeq(conversations, Len(last.pre_conversations) + 1, Len(conversations))

LastTurn == current_conversation[Len(current_conversation)]

\* C18: a turn reads, calls the model, then writes the user turn, the
\* assistant turn and the fact, in this order; nothing is written to the
\* buffer or to a collection while the response is being received, and a
\* turn whose model call fails or whose stream is not read to its end
\* leaves the buffer and both collections as they were when it began.
C18_WritesFollowTheResponse ==
  /\ pc = "streaming" => (last.op = "generate_response" /\ last.outcome = "streaming")
  /\ TurnNotCompleted =>
       /\ current_conversation = last.pre_conversation
       /\ conversations = last.pre_conversations
       /\ user_facts = last.pre_user_facts
  /\ TurnCompleted =>
       /\ Len(calls) >= 2
       /\ calls[Len(calls) - 1] = <<RoleUser, last.content>>
       /\ calls[Len(calls)] = <<RoleAssistant, last.response>>
       /\ current_conversation # <<>>
       /\ LastTurn.role = RoleAssistant
       /\ LastTurn.content = last.response
       /\ IsPrefix(last.pre_conversations, conversations)
       /\ memory_persistence =>
            /\ Len(AddedRecords) = 2
            /\ AddedRecords[1].document = RoleUser \o <<":", " ">> \o last.content
            /\ AddedRecords[2].document = RoleAssistant \o <<":", " ">> \o last.response
            /\ MetaGet(AddedRecords[1].metadata, "timestamp")
                 < MetaGet(AddedRecords[2].metadata, "timestamp")
       /\ \A i \in 1..Len(AddedFacts) :
            MetaGet(AddedFacts[i].metadata, "timestamp") > LastTurn.timestamp

C18_Witness ==
  /\ TurnCompleted
  /\ memory_persistence
  /\ last.response # <<>>
  /\ Len(AddedRecords) = 2
  /\ Len(AddedFacts) = 1

C18_WitnessAbandoned ==
  /\ TurnNotCompleted
  /\ last.outcome = "abandoned"
  /\ last.response # <<>>
  /\ current_conversation # <<>>

(***************************************************************************)
(* The recency block (checked under SpecContext).                          *)
(***************************************************************************)
\* the last min(5, length) turns of the buffer, each as "role: content"
ExpectedRecency ==
  LET n == Min(RecentWindow, Len(current_conversation))
      first == Len(current_conversation) - n
  IN  [i \in 1..n |->
         current_conversation[first + i].role \o <<":", " ">>
           \o current_conversation[first + i].content]

\* C19: the recency block is the last min(5, buffer length) turns of the
\* buffer, each rendered "role: content", oldest first; after a compaction
\* these are surviving turns only.  An empty buffer gives no block.
C19_RecencyIsLastFive ==
  ContextReturned =>
    /\ RecencyEntries(ContextLines) = ExpectedRecency
    /\ current_conversation = <<>> <=> HeaderAt(ContextLines, RecentHeaderLine) = {}
    /\ HeaderAt(ContextLines, RecentHeaderLine) \subseteq {1}

C19_Witness ==
  /\ ContextReturned
  /\ Len(current_conversation) = RecentWindow + 1
  /\ Len(RecencyEntries(ContextLines)) = RecentWindow
  /\ RecencyEntries(ContextLines)[1] = RoleAssistant \o <<":", " ">> \o MsgHello
  /\ current_conversation[1].content = MsgAlex

C19_WitnessCompacted ==
  /\ ContextReturned
  /\ Len(calls) > Len(current_conversation)
  /\ Len(RecencyEntries(ContextLines)) = Len(current_conversation)
  /\ Len(current_conversation) < RecentWindow

(***************************************************************************)
(* Properties of store_user_fact (checked under SpecFacts).                *)
(***************************************************************************)
StoreFactCalled == last.op = "store_user_fact"

\* the buffer's entries are turns made by add_message calls, in call order
BufferHoldsTurnsOnly ==
  /\ Len(current_conversation) <= Len(calls)
  /\ \A i \in 1..Len(current_conversation) :
       LET k == Len(calls) - Len(current_conversation) + i
       IN  /\ DOMAIN current_conversation[i]
                = {"role", "content", "timestamp", "metadata"}
           /\ <<current_conversation[i].role, current_conversation[i].content>>
                = calls[k]

\* C21: store_user_fact writes to "user_facts" only: whether it succeeds or
\* fails, the buffer and "conversations" are as before the call, so the
\* buffer holds nothing but the turns of add_message calls; a failing call
\* leaves "user_facts" as it was too, and no call raises.
C21_StoreUserFactWritesFactsOnly ==
  /\ BufferHoldsTurnsOnly
  /\ StoreFactCalled =>
       /\ ~ last.raised
       /\ current_conversation = last.pre_conversation
       /\ conversations = last.pre_conversations
       /\ IsPrefix(last.pre_user_facts, user_facts)
       /\ last.outcome # "ok" => user_facts = last.pre_user_facts

C21_Witness ==
  /\ StoreFactCalled
  /\ last.outcome = "add_failed"
  /\ last.pre_user_facts # <<>>
  /\ current_conversation # <<>>
  /\ conversations # <<>>

C21_WitnessStored ==
  /\ StoreFactCalled
  /\ last.outcome = "ok"
  /\ Len(user_facts) = Len(last.pre_user_facts) + 1
  /\ user_facts[Len(user_facts)].document = last.content
  /\ Len(current_conversation) = MaxFactCalls

(***************************************************************************)
(* Properties of the stored record's metadata (checked under SpecMetadata).*)
(***************************************************************************)
RecordInserted ==
  /\ last.op = "add_message"
  /\ memory_persistence
  /\ Len(conversations) = Len(last.pre_conversations) + 1

InsertedRecord == conversations[Len(conversations)]

\* C22: with persistence enabled, the record an add_message call inserts
\* into "conversations" has the document "role: content", and its metadata
\* holds the turn's role under "role" and the turn's timestamp under
\* "timestamp", whatever metadata the caller passed, a role or timestamp
\* key of the caller's included.
C22_RecordCarriesTurnRoleAndTimestamp ==
  RecordInserted =>
    /\ InsertedRecord.document = last.role \o <<":", " ">> \o last.content
    /\ last.message.role = last.role
    /\ MetaGet(InsertedRecord.metadata, "role") = last.message.role
    /\ MetaGet(InsertedRecord.metadata, "timestamp") = last.message.timestamp

====
